---- MODULE Spec2Model ----
(***************************************************************************)
(* LoggingServerProtocol (src/cowrie/insults/insults.py): the per-session  *)
(* recorder that logs a terminal session to a tty log, captures the stdin  *)
(* of exec sessions and shell redirections into files, and on              *)
(* connectionLost stores those files under their SHA-256 digest in the      *)
(* shared download directory and closes / uploads the tty log.              *)
(*                                                                         *)
(* One protocol instance per session.  The handlers connectionMade, write   *)
(* and dataReceived are single steps.  connectionLost is cut exactly where  *)
(* it touches the download directory, which sessions of other processes     *)
(* share without a lock: reading a captured file and testing the digest     *)
(* path (os.path.exists) is one step, the os.remove / os.rename that acts   *)
(* on the answer is the next one.  A session runs one handler at a time     *)
(* (pc), so the steps of one connectionLost are never interleaved with      *)
(* another handler of the same session.                                     *)
(*                                                                         *)
(* Time stamps and log durations are not modelled.  Files are byte          *)
(* sequences; sha256 is modelled as a collision-free tagging of the         *)
(* content.  os.rename has POSIX semantics (it atomically replaces an       *)
(* existing target).  Filesystem calls inside connectionLost and the minio  *)
(* upload can fail; which exception types `except IOError` catches depends  *)
(* on the interpreter (py3: IOError is OSError; Python 2: they differ).     *)
(***************************************************************************)
EXTENDS Integers, Sequences, FiniteSets, TLC

VARIABLES
    ttylogEnabled,      \* cfg honeypot.ttylog                     (l. 40-43)
    minioEnabled,       \* cfg honeypot.minio                      (l. 45-55)
    bytesReceivedLimit, \* cfg honeypot.download_limit_size        (l. 59-63)
    py3,                \* interpreter: TRUE iff IOError is OSError
    type,               \* [session -> "e" | "i"]                  (l. 65-68)
    phase,              \* [session -> "NONE" | "CREATED" | "OPEN" | "CLOSED"]
    pc,                 \* [session -> position inside connectionLost]
    bytesReceived,      \* [session -> Nat]
    stdinlogOpen,       \* [session -> BOOLEAN]
    ttylogOpen,         \* [session -> BOOLEAN]
    ttylogSize,         \* [session -> Nat]
    redirFiles,         \* [session -> set of <<path, label>>]
    terminalProtocol,   \* [session -> BOOLEAN]  (handle present)
    pending,            \* [session -> entries the for loop has still to visit]
    cur,                \* [session -> the finalize in progress, or <<>>]
    files,              \* temp files: [existing path -> content]
    store,              \* download dir: [existing digest -> content]
    received,           \* history: chunks passed to dataReceived
    term,               \* history: what reached the terminal layer
    peer,               \* history: chunks forwarded to the peer
    outbound,            \* history: chunks passed to write
    outboundAtClose,     \* history: how many of them came before the first
                        \* connectionLost call (-1 until that call)
    ttyCalls,           \* history: ttylog_open / ttylog_write / ttylog_close
    events,             \* history: log.msg calls
    ops,                \* history: os.remove / os.rename calls
    uploads,            \* history: outcomes of fput_object
    raised,             \* history: exceptions that left connectionLost
    prev,               \* history: the handler last called on the session
    repeat,             \* history: the connectionLost call in hand, or the
                        \* last one, directly followed another one
    closeCalls,         \* history: connectionLost invocations begun
    calls,              \* history: number of handler calls so far
    faults              \* number of filesystem failures so far

cfgVars  == <<ttylogEnabled, minioEnabled, bytesReceivedLimit, py3, type>>
sessVars == <<phase, pc, bytesReceived, stdinlogOpen, ttylogOpen, ttylogSize,
              redirFiles, terminalProtocol, pending, cur>>
fsVars   == <<files, store>>
histVars == <<received, term, peer, outbound, outboundAtClose, ttyCalls,
              events, ops, uploads, raised, prev, repeat, closeCalls, calls,
              faults>>
vars     == <<cfgVars, sessVars, fsVars, histVars>>

(***************************************************************************)
(* Bounds and input sets                                                   *)
(***************************************************************************)
MaxCalls    == 4    \* write, dataReceived, registration and connectionLost
                    \* calls, all sessions together
MaxFaults   == 1    \* filesystem failures

Sessions    == {"s1", "s2"}
Limits      == {0, 1}                  \* download_limit_size values
InChunks    == {<<>>, <<1>>, <<1, 2>>}  \* inbound chunks
OutChunks   == {<<3, 3>>}              \* outbound chunks
RedirNames  == {"a"}                   \* file <dir>/redir_<name>
RedirLabels == {"", "out"}             \* rp[1]; "" is falsy
RedirData   == {<<>>, <<1>>}            \* what the shell wrote to a redirect

stdinlogFile(s) == <<"stdin", s>>
RedirPath(s, n) == <<"redir_", s, n>>

FaultChoices(kinds) == IF faults < MaxFaults THEN {"none"} \cup kinds ELSE {"none"}
Hit(f) == IF f = "none" THEN faults ELSE faults + 1

(***************************************************************************)
(* Pure helpers                                                            *)
(***************************************************************************)
\* hashlib.sha256(content).hexdigest(): one digest per content
sha256(c) == <<"sha256", c>>

\* the counter assigned instead of added to
CountedLast(n, data) == Len(data)

\* l. 124: self.bytesReceived += len(data)
Counted(n, data) == n + Len(data)

\* the limit tested one byte too late
LimitReachedOffByOne(n, limit) == limit # 0 /\ n > limit + 1

\* the limit tested with >= instead of >
LimitReachedAtLimit(n, limit) == limit # 0 /\ n >= limit

\* l. 125-126: if self.bytesReceivedLimit and self.bytesReceived > limit
LimitReached(n, limit) == limit # 0 /\ n > limit

\* stdin captured whatever the session type
CaptureModeAlways(t) == TRUE

\* l. 100-103: stdinlogOpen is True for type 'e', False otherwise
CaptureMode(t) == t = "e"

\* l. 181, 218: except IOError
Caught(exc) == exc = "IOError" \/ (py3 /\ exc = "OSError")

\* l. 236: except ResponseError
UploadCaught(exc) == exc = "ResponseError"

\* l. 189-194: url = rp[1] if rp[1] else rf[rf.find('redir_')+len('redir_'):]
RedirUrl(rp) == IF rp[2] # "" THEN rp[2] ELSE rp[1][3]

\* a directory as a function from the names in it to the file contents
Remove(fs, p) == [q \in DOMAIN fs \ {p} |-> fs[q]]
Put(fs, p, c) == [q \in DOMAIN fs \cup {p} |-> IF q = p THEN c ELSE fs[q]]
Content(fs, p) == IF p \in DOMAIN fs THEN fs[p] ELSE <<>>

\* the capture opened with 'wb' instead of 'ab'
AppendedTruncating(fs, p, data) == Put(fs, p, data)

\* l. 133-134: open(self.stdinlogFile, 'ab'); f.write(data)
Appended(fs, p, data) == Put(fs, p, Content(fs, p) \o data)

\* the temp file left in place
OsRemoveSkipped(fs, p) == fs

\* l. 171, 201, 208: os.remove(path)
OsRemove(fs, p) == Remove(fs, p)

\* l. 174, 211: os.rename(path, shasumfile); the target is replaced if it exists
OsRename(st, fs, p, target) == Put(st, target, fs[p])

(***************************************************************************)
(* Initial state: after __init__ (l. 32-68)                                *)
(***************************************************************************)
InitWith(live) ==
    /\ ttylogEnabled \in BOOLEAN
    /\ minioEnabled \in BOOLEAN
    /\ bytesReceivedLimit \in Limits
    /\ py3 \in BOOLEAN
    /\ type \in [Sessions -> {"e", "i"}]
    /\ \A s \in Sessions \ live : type[s] = "i"
    /\ phase = [s \in Sessions |-> IF s \in live THEN "CREATED" ELSE "NONE"]
    /\ pc = [s \in Sessions |-> "idle"]
    /\ bytesReceived = [s \in Sessions |-> 0]
    /\ stdinlogOpen = [s \in Sessions |-> FALSE]
    /\ ttylogOpen = [s \in Sessions |-> FALSE]
    /\ ttylogSize = [s \in Sessions |-> 0]
    /\ redirFiles = [s \in Sessions |-> {}]
    /\ terminalProtocol = [s \in Sessions |-> FALSE]
    /\ pending = [s \in Sessions |-> {}]
    /\ cur = [s \in Sessions |-> <<>>]
    /\ files = <<>>
    /\ store = <<>>
    /\ received = [s \in Sessions |-> <<>>]
    /\ term = [s \in Sessions |-> <<>>]
    /\ peer = [s \in Sessions |-> <<>>]
    /\ outbound = [s \in Sessions |-> <<>>]
    /\ outboundAtClose = [s \in Sessions |-> -1]
    /\ ttyCalls = [s \in Sessions |-> <<>>]
    /\ events = [s \in Sessions |-> <<>>]
    /\ ops = [s \in Sessions |-> <<>>]
    /\ uploads = [s \in Sessions |-> <<>>]
    /\ raised = [s \in Sessions |-> <<>>]
    /\ prev = [s \in Sessions |-> "__init__"]
    /\ repeat = [s \in Sessions |-> FALSE]
    /\ closeCalls = [s \in Sessions |-> 0]
    /\ calls = 0
    /\ faults = 0

\* One session on its own
Init == InitWith({"s1"})

\* Two sessions of processes that share the download directory
InitShared ==
    /\ InitWith(Sessions)
    /\ ~ttylogEnabled /\ ~minioEnabled /\ bytesReceivedLimit = 0

\* the tty log given up once the limit has tripped
TtyLoggingUntilTrip(s) ==
    /\ ttylogEnabled /\ ttylogOpen[s]
    /\ ~LimitReached(bytesReceived[s], bytesReceivedLimit)

\* l. 112, 135, 222: if self.ttylogEnabled and self.ttylogOpen
TtyLogging(s) == ttylogEnabled /\ ttylogOpen[s]

\* the upload tried whatever the configuration
UploadingAlways == TRUE

\* l. 230: if self.minioEnabled
Uploading == minioEnabled

(***************************************************************************)
(* connectionMade (l. 79-105)                                              *)
(***************************************************************************)
connectionMade(s) ==
    /\ phase[s] = "CREATED"
    /\ phase' = [phase EXCEPT ![s] = "OPEN"]
    /\ IF ttylogEnabled
       THEN /\ ttyCalls' = [ttyCalls EXCEPT ![s] = Append(@, <<"open">>)]
            /\ ttylogOpen' = [ttylogOpen EXCEPT ![s] = TRUE]
            /\ ttylogSize' = [ttylogSize EXCEPT ![s] = 0]
            /\ events' = [events EXCEPT ![s] = Append(@, <<"cowrie.log.open">>)]
       ELSE UNCHANGED <<ttyCalls, ttylogOpen, ttylogSize, events>>
    /\ stdinlogOpen' = [stdinlogOpen EXCEPT ![s] = CaptureMode(type[s])]
    /\ terminalProtocol' = [terminalProtocol EXCEPT ![s] = TRUE]
    /\ prev' = [prev EXCEPT ![s] = "connectionMade"]
    /\ UNCHANGED <<cfgVars, pc, bytesReceived, redirFiles, pending, cur, fsVars,
                   received, term, peer, outbound, outboundAtClose, ops,
                   uploads, raised, closeCalls,
                   calls, faults, repeat>>

(***************************************************************************)
(* write (l. 108-117)                                                      *)
(***************************************************************************)
write(s, bytes) ==
    /\ phase[s] \in {"OPEN", "CLOSED"}
    /\ pc[s] = "idle"
    /\ calls < MaxCalls
    /\ calls' = calls + 1
    /\ IF TtyLogging(s)
       THEN /\ ttyCalls' = [ttyCalls EXCEPT ![s] = Append(@, <<"write", "OUTPUT", bytes>>)]
            /\ ttylogSize' = [ttylogSize EXCEPT ![s] = @ + Len(bytes)]
       ELSE UNCHANGED <<ttyCalls, ttylogSize>>
    /\ peer' = [peer EXCEPT ![s] = Append(@, bytes)]
    /\ outbound' = [outbound EXCEPT ![s] = Append(@, bytes)]
    /\ UNCHANGED outboundAtClose
    /\ prev' = [prev EXCEPT ![s] = "write"]
    /\ UNCHANGED <<cfgVars, phase, pc, bytesReceived, stdinlogOpen, ttylogOpen,
                   redirFiles, terminalProtocol, pending, cur, fsVars,
                   received, term, events, ops, uploads, raised, closeCalls,
                   faults, repeat>>

(***************************************************************************)
(* eofReceived (l. 145-150)                                                *)
(***************************************************************************)
eofReceived(s) ==
    term' = [term EXCEPT ![s] = IF terminalProtocol[s]
                                THEN Append(@, <<"eof">>) ELSE @]

(***************************************************************************)
(* dataReceived (l. 120-142)                                               *)
(***************************************************************************)
\* l. 132-137: the capture of an accepted chunk
Capture(s, data) ==
    IF stdinlogOpen[s]
    THEN /\ files' = Appended(files, stdinlogFile(s), data)
         /\ UNCHANGED ttyCalls
    ELSE IF TtyLogging(s)
    THEN /\ ttyCalls' = [ttyCalls EXCEPT ![s] = Append(@, <<"write", "INPUT", data>>)]
         /\ UNCHANGED files
    ELSE UNCHANGED <<files, ttyCalls>>

\* the bytes forwarded without the test of the handle
ForwardUnchecked(s, data) ==
    term' = [term EXCEPT ![s] = Append(@, <<"data", data>>)]

\* l. 141-142: forward to the terminal layer if there is one
Forward(s, data) ==
    term' = [term EXCEPT ![s] = IF terminalProtocol[s]
                                THEN Append(@, <<"data", data>>) ELSE @]

dataReceived(s, data) ==
    /\ phase[s] \in {"OPEN", "CLOSED"}
    /\ pc[s] = "idle"
    /\ calls < MaxCalls
    /\ calls' = calls + 1
    /\ received' = [received EXCEPT ![s] = Append(@, data)]
    /\ bytesReceived' = [bytesReceived EXCEPT ![s] = Counted(@, data)]
    /\ IF LimitReached(bytesReceived'[s], bytesReceivedLimit)
       THEN /\ events' = [events EXCEPT ![s] = Append(@, <<"Data upload limit reached">>)]
            /\ eofReceived(s)
            /\ UNCHANGED <<files, ttyCalls>>
       ELSE /\ Capture(s, data)
            /\ Forward(s, data)
            /\ UNCHANGED events
    /\ prev' = [prev EXCEPT ![s] = "dataReceived"]
    /\ UNCHANGED <<cfgVars, phase, pc, stdinlogOpen, ttylogOpen, ttylogSize,
                   redirFiles, terminalProtocol, pending, cur, store,
                   peer, outbound, outboundAtClose, ops, uploads, raised,
                   closeCalls,
                   faults, repeat>>

(***************************************************************************)
(* Registration of a redirect entry by the command layer                    *)
(* (core/protocol.py adds (path, label) to redirFiles; the shell may or    *)
(* may not have written the file).                                         *)
(***************************************************************************)
registerRedir(s, n, label, written, data) ==
    /\ phase[s] = "OPEN"
    /\ pc[s] = "idle"
    /\ calls < MaxCalls
    /\ redirFiles' = [redirFiles EXCEPT ![s] = @ \cup {<<RedirPath(s, n), label>>}]
    /\ files' = IF written THEN Put(files, RedirPath(s, n), data) ELSE files
    /\ calls' = calls + 1
    /\ prev' = [prev EXCEPT ![s] = "registerRedir"]
    /\ UNCHANGED <<cfgVars, phase, pc, bytesReceived, stdinlogOpen, ttylogOpen,
                   ttylogSize, terminalProtocol, pending, cur, store,
                   received, term, peer, outbound, outboundAtClose, ttyCalls,
                   events, ops, uploads, raised,
                   closeCalls,
                   faults, repeat>>

(***************************************************************************)
(* connectionLost (l. 160-239)                                             *)
(***************************************************************************)
\* An exception leaves connectionLost: nothing after the raising line runs.
Propagate(s, exc) ==
    /\ pc' = [pc EXCEPT ![s] = "idle"]
    /\ pending' = [pending EXCEPT ![s] = {}]
    /\ cur' = [cur EXCEPT ![s] = <<>>]
    /\ raised' = [raised EXCEPT ![s] = Append(@, exc)]

\* l. 186-187: on to the redirect files
ToRedir(s) ==
    /\ pc' = [pc EXCEPT ![s] = "redir"]
    /\ pending' = [pending EXCEPT ![s] = redirFiles[s]]
    /\ cur' = [cur EXCEPT ![s] = <<>>]
    /\ UNCHANGED raised

\* l. 167-170 / 204-207: the file was read and hashed, the digest path tested
Hashed(path, url) ==
    [path |-> path, url |-> url, shasum |-> sha256(files[path]),
     dup |-> sha256(files[path]) \in DOMAIN store]

\* l. 170-180 / 207-217: act on the answer of os.path.exists, then log.
\* exc = "OSError": the os.remove / os.rename raised instead.
Finalize(s, exc) ==
    LET c == cur[s] IN
    IF exc # "none" \/ c.path \notin DOMAIN files
    THEN UNCHANGED <<files, store, ops, events>>
    ELSE /\ IF c.dup
            THEN /\ files' = OsRemove(files, c.path)
                 /\ UNCHANGED store
                 /\ ops' = [ops EXCEPT ![s] = Append(@, <<"remove", c.path, c.shasum, TRUE>>)]
                 /\ events' = [events EXCEPT ![s] =
                        @ \o << <<"Not storing duplicate content", c.shasum>>,
                                <<"cowrie.session.file_download", c.url, c.shasum>> >>]
            ELSE /\ store' = OsRename(store, files, c.path, c.shasum)
                 /\ files' = Remove(files, c.path)
                 /\ ops' = [ops EXCEPT ![s] =
                        Append(@, <<"rename", c.path, c.shasum, c.shasum \in DOMAIN store>>)]
                 /\ events' = [events EXCEPT ![s] =
                        Append(@, <<"cowrie.session.file_download", c.url, c.shasum>>)]

\* l. 160-170: entry; open, read and hash the stdin capture, test the digest path
connectionLost(s) ==
    /\ phase[s] \in {"OPEN", "CLOSED"}
    /\ pc[s] = "idle"
    /\ calls < MaxCalls
    /\ calls' = calls + 1
    /\ closeCalls' = [closeCalls EXCEPT ![s] = @ + 1]
    /\ IF stdinlogOpen[s]
       THEN \E f \in FaultChoices(IF stdinlogFile(s) \in DOMAIN files
                                  THEN {"IOError"} ELSE {}) :
              /\ faults' = Hit(f)
              /\ IF f = "IOError" \/ stdinlogFile(s) \notin DOMAIN files
                 THEN \* open() raised IOError; finally: l. 183-184
                      /\ stdinlogOpen' = [stdinlogOpen EXCEPT ![s] = FALSE]
                      /\ IF Caught("IOError") THEN ToRedir(s) ELSE Propagate(s, "IOError")
                 ELSE /\ pc' = [pc EXCEPT ![s] = "stdin"]
                      /\ cur' = [cur EXCEPT ![s] = Hashed(stdinlogFile(s), "stdin")]
                      /\ UNCHANGED <<stdinlogOpen, pending, raised>>
       ELSE /\ ToRedir(s)
            /\ UNCHANGED <<stdinlogOpen, faults>>
    /\ prev' = [prev EXCEPT ![s] = "connectionLost"]
    /\ repeat' = [repeat EXCEPT ![s] = (prev[s] = "connectionLost")]
    /\ outboundAtClose' = [outboundAtClose EXCEPT ![s] =
                              IF closeCalls[s] = 0 THEN Len(outbound[s]) ELSE @]
    /\ UNCHANGED <<cfgVars, phase, bytesReceived, ttylogOpen, ttylogSize,
                   redirFiles, terminalProtocol, fsVars, received, term, peer,
                   outbound, ttyCalls, events, ops, uploads>>

\* l. 170-184: remove or rename the stdin capture, log, clear stdinlogOpen
stdinStore(s) ==
    /\ pc[s] = "stdin"
    /\ \E f \in FaultChoices({"OSError"}) :
         LET exc == IF cur[s].path \notin DOMAIN files THEN "OSError" ELSE f IN
         /\ faults' = Hit(f)
         /\ Finalize(s, exc)
         /\ stdinlogOpen' = [stdinlogOpen EXCEPT ![s] = FALSE]
         /\ IF exc = "none" \/ Caught(exc) THEN ToRedir(s) ELSE Propagate(s, exc)
    /\ UNCHANGED <<cfgVars, phase, bytesReceived, ttylogOpen, ttylogSize,
                   redirFiles, terminalProtocol, received, term, peer,
                   outbound, outboundAtClose,
                   ttyCalls, uploads, closeCalls,
                   calls, prev, repeat>>

\* l. 186-207, 220: the next entry of the for loop, up to the test of the
\* digest path; or the end of the loop and redirFiles.clear()
redirNext(s) ==
    /\ pc[s] = "redir"
    /\ IF pending[s] = {}
       THEN /\ redirFiles' = [redirFiles EXCEPT ![s] = {}]
            /\ pc' = [pc EXCEPT ![s] = "tty"]
            /\ UNCHANGED <<pending, cur, raised, files, ops, faults>>
       ELSE \E rp \in pending[s] :
            LET rf == rp[1]
                skip == /\ pending' = [pending EXCEPT ![s] = @ \ {rp}]
                        /\ UNCHANGED <<pc, cur, raised, redirFiles>>
                fail(exc) == IF Caught(exc) THEN skip
                             ELSE Propagate(s, exc) /\ UNCHANGED redirFiles
            IN
            IF rf \notin DOMAIN files
            THEN \* l. 197-198
                 skip /\ UNCHANGED <<files, ops, faults>>
            ELSE \E f \in FaultChoices({"IOError", "OSError"}) :
                 /\ faults' = Hit(f)
                 /\ IF f = "OSError"
                    THEN \* os.path.getsize (or the os.remove of l. 201) raised
                         fail("OSError") /\ UNCHANGED <<files, ops>>
                    ELSE IF Len(files[rf]) = 0
                    THEN \* l. 200-202
                         /\ f = "none"
                         /\ files' = OsRemove(files, rf)
                         /\ ops' = [ops EXCEPT ![s] = Append(@, <<"discard", rf>>)]
                         /\ skip
                    ELSE IF f = "IOError"
                    THEN \* open() or read() raised
                         fail("IOError") /\ UNCHANGED <<files, ops>>
                    ELSE /\ pc' = [pc EXCEPT ![s] = "redirStore"]
                         /\ cur' = [cur EXCEPT ![s] = Hashed(rf, RedirUrl(rp))]
                         /\ pending' = [pending EXCEPT ![s] = @ \ {rp}]
                         /\ UNCHANGED <<raised, redirFiles, files, ops>>
    /\ UNCHANGED <<cfgVars, phase, bytesReceived, stdinlogOpen, ttylogOpen,
                   ttylogSize, terminalProtocol, store, received, term, peer,
                   outbound, outboundAtClose,
                   ttyCalls, events, uploads, closeCalls,
                   calls, prev, repeat>>

\* l. 207-219: remove or rename the redirect file, log
redirStore(s) ==
    /\ pc[s] = "redirStore"
    /\ \E f \in FaultChoices({"OSError"}) :
         LET exc == IF cur[s].path \notin DOMAIN files THEN "OSError" ELSE f IN
         /\ faults' = Hit(f)
         /\ Finalize(s, exc)
         /\ IF exc = "none" \/ Caught(exc)
            THEN /\ pc' = [pc EXCEPT ![s] = "redir"]
                 /\ cur' = [cur EXCEPT ![s] = <<>>]
                 /\ UNCHANGED <<pending, raised>>
            ELSE Propagate(s, exc)
    /\ UNCHANGED <<cfgVars, phase, bytesReceived, stdinlogOpen, ttylogOpen,
                   ttylogSize, redirFiles, terminalProtocol, received, term,
                   peer, outbound, outboundAtClose, ttyCalls, uploads, closeCalls,
                   calls, prev, repeat>>

\* Outcomes of self.minioc.fput_object (l. 232)
UploadOutcomes == {"ok", "ResponseError", "OtherError"}

\* l. 222-239: close the tty log, upload it, then ServerProtocol.connectionLost
ttyClose(s) ==
    /\ pc[s] = "tty"
    /\ IF TtyLogging(s)
       THEN /\ ttyCalls' = [ttyCalls EXCEPT ![s] = Append(@, <<"close">>)]
            /\ ttylogOpen' = [ttylogOpen EXCEPT ![s] = FALSE]
            /\ IF Uploading
               THEN \E out \in UploadOutcomes :
                    /\ uploads' = [uploads EXCEPT ![s] = Append(@, out)]
                    /\ events' = [events EXCEPT ![s] =
                           @ \o << <<"cowrie.log.closed", ttylogSize[s]>> >>
                             \o (IF out = "ok" THEN << <<"cowrie.log.uploaded">> >>
                                 ELSE <<>>)]
                    /\ IF out = "ok" \/ UploadCaught(out)
                       THEN /\ terminalProtocol' = [terminalProtocol EXCEPT ![s] = FALSE]
                            /\ phase' = [phase EXCEPT ![s] = "CLOSED"]
                            /\ pc' = [pc EXCEPT ![s] = "idle"]
                            /\ UNCHANGED <<pending, cur, raised>>
                       ELSE /\ Propagate(s, out)
                            /\ UNCHANGED <<terminalProtocol, phase>>
               ELSE /\ events' = [events EXCEPT ![s] =
                           Append(@, <<"cowrie.log.closed", ttylogSize[s]>>)]
                    /\ terminalProtocol' = [terminalProtocol EXCEPT ![s] = FALSE]
                    /\ phase' = [phase EXCEPT ![s] = "CLOSED"]
                    /\ pc' = [pc EXCEPT ![s] = "idle"]
                    /\ UNCHANGED <<uploads, pending, cur, raised>>
       ELSE /\ terminalProtocol' = [terminalProtocol EXCEPT ![s] = FALSE]
            /\ phase' = [phase EXCEPT ![s] = "CLOSED"]
            /\ pc' = [pc EXCEPT ![s] = "idle"]
            /\ UNCHANGED <<ttyCalls, ttylogOpen, uploads, events, pending, cur, raised>>
    /\ UNCHANGED <<cfgVars, bytesReceived, stdinlogOpen, ttylogSize, redirFiles,
                   fsVars, received, term, peer, outbound, outboundAtClose,
                   ops, closeCalls, calls, faults,
                   prev, repeat>>

(***************************************************************************)
(* Specification                                                           *)
(***************************************************************************)
Next ==
    \/ \E s \in Sessions : connectionMade(s)
    \/ \E s \in Sessions, b \in OutChunks : write(s, b)
    \/ \E s \in Sessions, d \in InChunks : dataReceived(s, d)
    \/ \E s \in Sessions, n \in RedirNames, l \in RedirLabels,
          w \in BOOLEAN, d \in RedirData : registerRedir(s, n, l, w, d)
    \/ \E s \in Sessions : connectionLost(s)
    \/ \E s \in Sessions : stdinStore(s)
    \/ \E s \in Sessions : redirNext(s)
    \/ \E s \in Sessions : redirStore(s)
    \/ \E s \in Sessions : ttyClose(s)

Spec == Init /\ [][Next]_vars

SpecShared == InitShared /\ [][Next]_vars

(***************************************************************************)
(* Vocabulary of the properties                                            *)
(***************************************************************************)
Indices(seq) == 1..Len(seq)

EofCount(s) == Cardinality({i \in Indices(term[s]) : term[s][i][1] = "eof"})

Downloads(s) ==
    {i \in Indices(events[s]) : events[s][i][1] = "cowrie.session.file_download"}

\* the os.remove / os.rename calls that finalized a hashed file: <<session, index>>
FinalOps ==
    {x \in UNION {{<<s, i>> : i \in Indices(ops[s])} : s \in Sessions} :
        ops[x[1]][x[2]][1] \in {"remove", "rename"}}
Op(x) == ops[x[1]][x[2]]

\* The chunks of chs, in order, that arrive before the total exceeds the limit
BeforeTrip(chs, limit) ==
    LET RECURSIVE Go(_, _)
        Go(i, total) ==
            IF i > Len(chs) THEN <<>>
            ELSE IF limit # 0 /\ total + Len(chs[i]) > limit THEN <<>>
            ELSE chs[i] \o Go(i + 1, total + Len(chs[i]))
    IN  Go(1, 0)

\* The same, with the chunk that makes the total exceed the limit included
UpToTrip(chs, limit) ==
    LET RECURSIVE Go(_, _)
        Go(i, total) ==
            IF i > Len(chs) THEN <<>>
            ELSE IF limit # 0 /\ total + Len(chs[i]) > limit THEN chs[i]
            ELSE chs[i] \o Go(i + 1, total + Len(chs[i]))
    IN  Go(1, 0)

\* The chunks of chs, one by one, that arrive before the total exceeds the limit
AcceptedChunks(chs, limit) ==
    LET RECURSIVE Go(_, _)
        Go(i, total) ==
            IF i > Len(chs) THEN <<>>
            ELSE IF limit # 0 /\ total + Len(chs[i]) > limit THEN <<>>
            ELSE <<chs[i]>> \o Go(i + 1, total + Len(chs[i]))
    IN  Go(1, 0)

\* The payloads of the ttylog_write calls of one direction, in call order
Payloads(s, dir) ==
    LET recs == SelectSeq(ttyCalls[s],
                          LAMBDA c : c[1] = "write" /\ c[2] = dir)
    IN  [i \in Indices(recs) |-> recs[i][3]]

IsPrefix(a, b) == Len(a) <= Len(b) /\ a = SubSeq(b, 1, Len(a))

HasEvent(s, name) == \E i \in Indices(events[s]) : events[s][i][1] = name

\* ttylog calls in the order: ttylog_open, any ttylog_write, ttylog_close
OpenWritesClose(tc) ==
    /\ tc # <<>> => tc[1] = <<"open">>
    /\ \A i \in Indices(tc) :
          /\ tc[i] = <<"open">> => i = 1
          /\ tc[i] = <<"close">> => i = Len(tc)

\* The total length of a sequence of chunks
SumLen(chs) ==
    LET RECURSIVE Go(_)
        Go(i) == IF i > Len(chs) THEN 0 ELSE Len(chs[i]) + Go(i + 1)
    IN  Go(1)

\* The chunks that reached the terminal layer, in order
Forwarded(s) ==
    LET recs == SelectSeq(term[s], LAMBDA c : c[1] = "data")
    IN  [i \in Indices(recs) |-> recs[i][2]]

\* The place of a stage in a connectionLost call
Stage(p) ==
    IF p = "stdin" THEN 1
    ELSE IF p \in {"redir", "redirStore"} THEN 2
    ELSE IF p = "tty" THEN 3
    ELSE 0

Count(seq, x) == Cardinality({i \in Indices(seq) : seq[i] = x})

\* A step of a connectionLost call of session s
CloseStep(s) ==
    \/ closeCalls'[s] # closeCalls[s]
    \/ pc[s] # "idle" /\ <<pc[s], pending[s]>> # <<pc'[s], pending'[s]>>

(***************************************************************************)
(* C1.  connectionLost is idempotent: a connectionLost call that directly  *)
(* follows another one on the same session changes neither the temp files  *)
(* nor the download directory, makes no ttylog call, logs no event, does   *)
(* not upload and raises nothing.                                          *)
(* Fails: when the first call was left by an exception (C9), the second    *)
(* call does the work the first one skipped.                               *)
(***************************************************************************)
C1_CloseTwiceIsCloseOnce ==
    [][\A s \in Sessions :
         (repeat'[s] /\ CloseStep(s)) =>
            /\ files' = files
            /\ store' = store
            /\ ttyCalls'[s] = ttyCalls[s]
            /\ events'[s] = events[s]
            /\ uploads'[s] = uploads[s]
            /\ raised'[s] = raised[s]]_vars

(***************************************************************************)
(* C2.  With a positive limit the forced end-of-input reaches the terminal *)
(* layer exactly once per session: once the limit is exceeded on an open   *)
(* session there has been one, and there is never a second one.            *)
(* Fails: every later dataReceived call sends it again.                    *)
(***************************************************************************)
C2_EofExactlyOnce ==
    \A s \in Sessions :
        bytesReceivedLimit > 0 =>
            /\ EofCount(s) <= 1
            /\ (bytesReceived[s] > bytesReceivedLimit /\ closeCalls[s] = 0)
                  => EofCount(s) = 1

C4_TripIsSticky ==
    [][\A s \in Sessions :
         (/\ bytesReceivedLimit > 0
          /\ bytesReceived[s] > bytesReceivedLimit
          /\ received'[s] # received[s])
         => /\ files' = files
            /\ ttyCalls'[s] = ttyCalls[s]
            /\ term'[s] \in {term[s], Append(term[s], <<"eof">>)}]_vars

\* C4: the first chunk tripped the limit and a later one arrived
C4_Witness ==
    \E s \in Sessions :
        /\ bytesReceivedLimit > 0
        /\ Len(received[s]) >= 2
        /\ Len(received[s][1]) > bytesReceivedLimit

(***************************************************************************)
(* C5.  Two captured files with the same non-empty content, finalized by   *)
(* any sessions in any interleaving without a filesystem failure: the      *)
(* download directory holds that content under its digest, under no other  *)
(* name, and neither temp file remains.                                    *)
(***************************************************************************)
C5_SameContentOneArtifact ==
    faults = 0 =>
        \A a \in FinalOps : \A b \in FinalOps \ {a} :
            (Op(a)[3] = Op(b)[3] /\ Op(a)[3] # sha256(<<>>)) =>
                LET d == Op(a)[3] IN
                /\ d \in DOMAIN store
                /\ sha256(store[d]) = d
                /\ \A e \in DOMAIN store : store[e] = store[d] => e = d
                /\ Op(a)[2] \notin DOMAIN files
                /\ Op(b)[2] \notin DOMAIN files

\* C5: two sessions raced: the second rename found the target in place
C5_Witness ==
    /\ faults = 0
    /\ \E a \in FinalOps : \E b \in FinalOps :
          /\ a[1] # b[1]
          /\ Op(a)[3] = Op(b)[3] /\ Op(a)[3] # sha256(<<>>)
          /\ Op(b)[1] = "rename" /\ Op(b)[4]

(***************************************************************************)
(* C6.  A rename of a non-empty file onto a digest path that already       *)
(* exists never happens: the session that moves second notices the target  *)
(* and deletes its temp file.                                              *)
(* Fails: os.path.exists is tested once, before the rename.                *)
(***************************************************************************)
C6_NoRenameOntoExisting ==
    \A x \in FinalOps :
        (Op(x)[1] = "rename" /\ Op(x)[3] # sha256(<<>>)) => ~Op(x)[4]

(***************************************************************************)
(* C7.  An empty captured file is never stored and never logged as a       *)
(* download.                                                               *)
(* Fails: the stdin capture is hashed and stored without a size check.     *)
(***************************************************************************)
C7_EmptyNeverStored ==
    /\ sha256(<<>>) \notin DOMAIN store
    /\ \A s \in Sessions : \A i \in Downloads(s) :
          events[s][i][3] # sha256(<<>>)

(***************************************************************************)
(* C8.  A file_download event is logged only by a finalize that renamed    *)
(* its temp file onto a digest path that did not exist; a duplicate logs   *)
(* only the notice.                                                        *)
(* Fails: the file_download event is logged after the if / else.           *)
(***************************************************************************)
C8_DownloadOnlyWhenStored ==
    \A s \in Sessions :
        Cardinality(Downloads(s))
           = Cardinality({i \in Indices(ops[s]) :
                             ops[s][i][1] = "rename" /\ ~ops[s][i][4]})

(***************************************************************************)
(* C9.  No filesystem failure leaves connectionLost: after a call without  *)
(* an upload failure the redirect set is empty, the tty log is closed and  *)
(* the session is CLOSED.                                                  *)
(* Fails: os.remove, os.rename and os.path.getsize raise OSError, which    *)
(* `except IOError` does not catch on Python 2.                            *)
(***************************************************************************)
C9_TeardownCompletes ==
    \A s \in Sessions :
        /\ \A i \in Indices(raised[s]) : raised[s][i] \notin {"IOError", "OSError"}
        /\ (pc[s] = "idle" /\ closeCalls[s] > 0 /\ raised[s] = <<>>)
              => phase[s] = "CLOSED" /\ redirFiles[s] = {} /\ ~ttylogOpen[s]

(***************************************************************************)
(* C10.  No upload failure leaves connectionLost: after the upload was     *)
(* tried the session is CLOSED whatever the outcome, and it is tried once. *)
(* Fails: only ResponseError is caught.                                    *)
(***************************************************************************)
C10_UploadFailureSwallowed ==
    \A s \in Sessions :
        /\ \A i \in Indices(raised[s]) : raised[s][i] \in {"IOError", "OSError"}
        /\ (pc[s] = "idle" /\ uploads[s] # <<>>)
              => /\ (raised[s] = <<>> => phase[s] = "CLOSED")
                 /\ ~ttylogOpen[s]
                 /\ Len(uploads[s]) = 1
                 /\ (uploads[s][1] # "ok" =>
                        \A i \in Indices(events[s]) :
                            events[s][i][1] # "cowrie.log.uploaded")

(***************************************************************************)
(* C11.  Interactive session with the tty log enabled: until connectionLost *)
(* is first called, the INPUT records of the tty log are, one per chunk    *)
(* and in order, the chunks received before the limit tripped; later they  *)
(* are still a prefix of those chunks, and ttylog_close, logged as         *)
(* cowrie.log.closed, comes after the last record.                         *)
(***************************************************************************)
C11_InputRecordsAreChunks ==
    \A s \in Sessions :
        (type[s] = "i" /\ ttylogEnabled /\ phase[s] # "NONE") =>
            LET accepted == AcceptedChunks(received[s], bytesReceivedLimit) IN
            /\ IsPrefix(Payloads(s, "INPUT"), accepted)
            /\ (phase[s] = "OPEN" /\ closeCalls[s] = 0)
                  => Payloads(s, "INPUT") = accepted
            /\ \A i \in Indices(ttyCalls[s]) :
                  ttyCalls[s][i] = <<"close">>
                     => i = Len(ttyCalls[s]) /\ HasEvent(s, "cowrie.log.closed")

\* C11: two chunks were received and recorded, then the session was closed
C11_Witness ==
    \E s \in Sessions :
        /\ type[s] = "i" /\ phase[s] = "CLOSED"
        /\ Len(received[s]) = 2
        /\ Payloads(s, "INPUT") = received[s]
        /\ ttyCalls[s][Len(ttyCalls[s])] = <<"close">>

(***************************************************************************)
(* C12.  The session type fixes the capture mode.  Type 'i': stdinlogOpen  *)
(* is never set, the stdin capture file never exists and no file_download  *)
(* event carries the url 'stdin'.  Type 'e': stdinlogOpen is set from      *)
(* connectionMade until connectionLost is first called, and is clear once  *)
(* that call is past its stdin part, for ever.                             *)
(***************************************************************************)
C12_CaptureModeBySessionKind ==
    \A s \in Sessions :
        /\ type[s] = "i" =>
              /\ ~stdinlogOpen[s]
              /\ stdinlogFile(s) \notin DOMAIN files
              /\ \A i \in Downloads(s) : events[s][i][2] # "stdin"
        /\ type[s] = "e" =>
              /\ (phase[s] = "OPEN" /\ closeCalls[s] = 0) => stdinlogOpen[s]
              /\ (closeCalls[s] > 0 /\ pc[s] # "stdin") => ~stdinlogOpen[s]
              /\ phase[s] = "CREATED" => ~stdinlogOpen[s]

\* C12: an exec session captured a chunk, was closed and got data afterwards
C12_Witness ==
    \E s \in Sessions :
        /\ type[s] = "e" /\ closeCalls[s] > 0 /\ pc[s] = "idle"
        /\ \E i \in Downloads(s) : events[s][i][2] = "stdin"
        /\ prev[s] = "dataReceived"

(***************************************************************************)
(* C13.  Order of the ttylog calls of a session: ttylog_open at most once, *)
(* first, and only if the tty log is enabled; ttylog_close at most once,   *)
(* last; every ttylog_write in between; and a write or dataReceived call   *)
(* that comes after a connectionLost call makes no ttylog call.            *)
(* Fails in the last part only: a connectionLost call that an OSError left *)
(* (C9) has not closed the tty log, and later data is still written to it. *)
(***************************************************************************)
C13_TtylogCallOrder ==
    [][\A s \in Sessions :
         /\ OpenWritesClose(ttyCalls'[s])
         /\ ~ttylogEnabled => ttyCalls'[s] = <<>>
         /\ (/\ closeCalls[s] > 0 /\ pc[s] = "idle"
             /\ (received'[s] # received[s] \/ outbound'[s] # outbound[s]))
            => ttyCalls'[s] = ttyCalls[s]]_vars

(***************************************************************************)
(* C14 as claimed.  bytesReceived never decreases and, under a positive    *)
(* limit, never exceeds the limit.                                         *)
(* Fails: the counter is added to before the test and on every later call. *)
(***************************************************************************)
C14_CounterCappedByLimit ==
    [][\A s \in Sessions :
         /\ bytesReceived'[s] >= bytesReceived[s]
         /\ bytesReceivedLimit > 0 => bytesReceived'[s] <= bytesReceivedLimit]_vars

(***************************************************************************)
(* C14 amended.  bytesReceived never decreases and is the total length of  *)
(* all chunks passed to dataReceived, tripping ones included; what a       *)
(* positive limit caps is the data processed: the bytes in the stdin       *)
(* capture, in the INPUT records and forwarded to the terminal layer.      *)
(***************************************************************************)
C14_CounterCountsAllLimitCapsProcessed ==
    [][\A s \in Sessions :
         /\ bytesReceived'[s] >= bytesReceived[s]
         /\ bytesReceived'[s] = SumLen(received'[s])
         /\ bytesReceivedLimit > 0 =>
               /\ Len(Content(files', stdinlogFile(s))) <= bytesReceivedLimit
               /\ SumLen(Payloads(s, "INPUT")') <= bytesReceivedLimit
               /\ SumLen(Forwarded(s)') <= bytesReceivedLimit]_vars

\* C14: the limit's worth was forwarded and the counter is beyond the limit
C14_Witness ==
    \E s \in Sessions :
        /\ bytesReceivedLimit > 0
        /\ bytesReceived[s] > bytesReceivedLimit
        /\ SumLen(Forwarded(s)) = bytesReceivedLimit

(***************************************************************************)
(* C15.  The redirect loop of connectionLost tolerates vanished files: the *)
(* visit of an entry whose file does not exist logs nothing, raises        *)
(* nothing and touches no file; when the loop has run to its end, and      *)
(* after every connectionLost call that returned, redirFiles is empty; and *)
(* every os.remove / os.rename of the loop takes a file that exists and    *)
(* leaves it gone, so no call can take it again.                           *)
(***************************************************************************)
C15_DrainToleratesVanishedFiles ==
    [][\A s \in Sessions :
         /\ \A rp \in pending[s] :
               (/\ pc[s] = "redir"
                /\ pending'[s] = pending[s] \ {rp}
                /\ rp[1] \notin DOMAIN files)
               => /\ events' = events /\ raised' = raised /\ ops' = ops
                  /\ files' = files /\ store' = store
         /\ (pc'[s] = "tty" \/ phase'[s] = "CLOSED") => redirFiles'[s] = {}
         /\ ops'[s] # ops[s] =>
               LET o == ops'[s][Len(ops'[s])] IN
               o[2] \in DOMAIN files /\ o[2] \notin DOMAIN files']_vars

\* C15: two entries for one path without a file were visited: nothing done
C15_Witness ==
    \E s \in Sessions :
        /\ pc[s] = "redir" /\ pending[s] = {}
        /\ Cardinality(redirFiles[s]) = 2
        /\ \A rp \in redirFiles[s] : rp[1] \notin DOMAIN files
        /\ ops[s] = <<>> /\ Downloads(s) = {} /\ raised[s] = <<>>

(***************************************************************************)
(* C16.  A trip of the limit ends the processing of input, not the         *)
(* connection: the dataReceived call that trips leaves the session OPEN    *)
(* with its terminal handle, and leaves ttylogOpen, stdinlogOpen,          *)
(* redirFiles, the temp files and the download directory as they were; a   *)
(* write call after the trip is forwarded to the peer and, on a session    *)
(* with the tty log enabled and not yet closed, recorded as OUTPUT.        *)
(***************************************************************************)
C16_TripEndsInputOnly ==
    [][\A s \in Sessions :
         /\ (/\ received'[s] # received[s]
             /\ phase[s] = "OPEN"
             /\ LimitReached(bytesReceived'[s], bytesReceivedLimit))
            => /\ phase'[s] = "OPEN"
               /\ terminalProtocol'[s] = terminalProtocol[s]
               /\ ttylogOpen'[s] = ttylogOpen[s]
               /\ stdinlogOpen'[s] = stdinlogOpen[s]
               /\ redirFiles'[s] = redirFiles[s]
               /\ files' = files /\ store' = store
               /\ raised'[s] = raised[s]
         /\ (/\ outbound'[s] # outbound[s]
             /\ LimitReached(bytesReceived[s], bytesReceivedLimit))
            => LET bytes == outbound'[s][Len(outbound'[s])] IN
               /\ peer'[s] = Append(peer[s], bytes)
               /\ (ttylogEnabled /\ phase[s] = "OPEN" /\ closeCalls[s] = 0)
                     => ttyCalls'[s] =
                           Append(ttyCalls[s], <<"write", "OUTPUT", bytes>>)]_vars

\* C16: the limit tripped, then a write call was recorded and forwarded
C16_Witness ==
    \E s \in Sessions :
        /\ LimitReached(bytesReceived[s], bytesReceivedLimit)
        /\ phase[s] = "OPEN" /\ closeCalls[s] = 0 /\ prev[s] = "write"
        /\ ttyCalls[s] # <<>>
        /\ ttyCalls[s][Len(ttyCalls[s])][1] = "write"
        /\ ttyCalls[s][Len(ttyCalls[s])][2] = "OUTPUT"
        /\ peer[s] # <<>>

(***************************************************************************)
(* C17.  Order inside a connectionLost call: the stdin capture, then the   *)
(* redirect entries and redirFiles.clear(), then ttylog_close, then the    *)
(* upload.  The stdin capture is stored only in the first stage, redirect  *)
(* files only in the second, and redirFiles is cleared on leaving it; the  *)
(* tty log is closed only in the last stage.  fput_object is called only   *)
(* with minio and the tty log both enabled, in the step that has called    *)
(* ttylog_close and logged cowrie.log.closed, and at most once per         *)
(* session; cowrie.log.uploaded is logged only by a call that succeeded.   *)
(***************************************************************************)
C17_CloseStepsInOrder ==
    [][\A s \in Sessions :
         /\ pc'[s] # "idle" => Stage(pc'[s]) >= Stage(pc[s])
         /\ Downloads(s)' # Downloads(s) =>
               IF pc[s] = "stdin"
               THEN events'[s][Len(events'[s])][2] = "stdin"
               ELSE pc[s] = "redirStore"
         /\ ops'[s] # ops[s] => Stage(pc[s]) \in {1, 2}
         /\ (Stage(pc[s]) = 2 /\ pc'[s] = "tty") => redirFiles'[s] = {}
         /\ Count(ttyCalls'[s], <<"close">>) # Count(ttyCalls[s], <<"close">>)
               => pc[s] = "tty" /\ redirFiles[s] = {} /\ ~stdinlogOpen[s]
         /\ uploads'[s] # uploads[s] =>
               /\ minioEnabled /\ ttylogEnabled
               /\ pc[s] = "tty"
               /\ uploads[s] = <<>> /\ Len(uploads'[s]) = 1
               /\ ttyCalls'[s][Len(ttyCalls'[s])] = <<"close">>
               /\ HasEvent(s, "cowrie.log.closed")'
         /\ Count(events'[s], <<"cowrie.log.uploaded">>) = Count(uploads'[s], "ok")
         /\ Count(events'[s], <<"cowrie.log.uploaded">>) <= 1]_vars

\* C17: a call stored the stdin capture and a redirect file, closed the tty
\* log and uploaded it
C17_Witness ==
    \E s \in Sessions :
        /\ phase[s] = "CLOSED"
        /\ Cardinality(Downloads(s)) = 2
        /\ uploads[s] = <<"ok">>
        /\ HasEvent(s, "cowrie.log.uploaded")

(***************************************************************************)
(* C18.  The limit trips only when the counter is greater than a positive  *)
(* limit.  With limit 0 there is never a forced eofReceived nor a 'Data    *)
(* upload limit reached' message.  With a positive limit, chunks whose     *)
(* lengths sum to at most the limit, so also to exactly the limit, cause   *)
(* neither; until connectionLost is called all of them are forwarded to    *)
(* the terminal layer and captured (exec session) or recorded as INPUT     *)
(* (interactive session with the tty log enabled).                         *)
(***************************************************************************)
C18_TripOnlyAboveLimit ==
    \A s \in Sessions :
        (bytesReceivedLimit = 0 \/ SumLen(received[s]) <= bytesReceivedLimit) =>
            /\ EofCount(s) = 0
            /\ ~HasEvent(s, "Data upload limit reached")
            /\ (phase[s] = "OPEN" /\ closeCalls[s] = 0) =>
                  /\ Forwarded(s) = received[s]
                  /\ type[s] = "e" =>
                        Content(files, stdinlogFile(s)) = BeforeTrip(received[s], 0)
                  /\ (type[s] = "i" /\ ttylogEnabled) =>
                        Payloads(s, "INPUT") = received[s]

\* C18: the chunks received sum to exactly a positive limit and were forwarded
C18_Witness ==
    \E s \in Sessions :
        /\ bytesReceivedLimit > 0
        /\ SumLen(received[s]) = bytesReceivedLimit
        /\ phase[s] = "OPEN" /\ closeCalls[s] = 0
        /\ SumLen(Forwarded(s)) = bytesReceivedLimit
        /\ EofCount(s) = 0

(***************************************************************************)
(* C19.  Late input.  A dataReceived call that comes after connectionLost  *)
(* was first called on an exec session writes no file, so the stdin        *)
(* capture is neither appended to nor created again: unless a filesystem   *)
(* call failed, no capture file exists once the stdin part of that         *)
(* connectionLost call is over.  Any dataReceived call, before or after    *)
(* connectionLost, reaches the terminal layer only if terminalProtocol is  *)
(* set; if it is not set, nothing is forwarded and nothing is raised.      *)
(***************************************************************************)
C19_LateInputIsHarmless ==
    [][\A s \in Sessions :
         /\ (type[s] = "e" /\ closeCalls[s] > 0 /\ received'[s] # received[s])
               => files' = files
         /\ (type[s] = "e" /\ closeCalls'[s] > 0 /\ pc'[s] # "stdin" /\ faults' = 0)
               => stdinlogFile(s) \notin DOMAIN files'
         /\ received'[s] # received[s] =>
               LET data == received'[s][Len(received'[s])] IN
               /\ raised'[s] = raised[s]
               /\ IF terminalProtocol[s]
                  THEN term'[s] \in {Append(term[s], <<"data", data>>),
                                     Append(term[s], <<"eof">>)}
                  ELSE term'[s] = term[s]]_vars

\* C19: an exec session captured a chunk and was closed; a chunk that came
\* later was neither captured nor forwarded
C19_Witness ==
    \E s \in Sessions :
        /\ type[s] = "e" /\ phase[s] = "CLOSED" /\ prev[s] = "dataReceived"
        /\ \E i \in Downloads(s) : events[s][i][2] = "stdin"
        /\ received[s][Len(received[s])] # <<>>
        /\ Len(Forwarded(s)) < Len(received[s])
        /\ stdinlogFile(s) \notin DOMAIN files

(***************************************************************************)
(* C20.  The size of the cowrie.log.closed event is the total length of    *)
(* the chunks passed to write between connectionMade and the first         *)
(* connectionLost call, chunks recorded as INPUT not counted; and every    *)
(* chunk passed to write is forwarded to the peer, tty log or not.         *)
(* Fails in the first part only: a first connectionLost call that an       *)
(* OSError left (C9) has not closed the tty log; chunks written after it   *)
(* are counted by the call that does close it.                             *)
(***************************************************************************)
C20_ClosedSizeIsOutboundBytes ==
    \A s \in Sessions :
        /\ peer[s] = outbound[s]
        /\ \A i \in Indices(events[s]) :
              events[s][i][1] = "cowrie.log.closed" =>
                 events[s][i][2] =
                    SumLen(SubSeq(outbound[s], 1, outboundAtClose[s]))

====
